---- MODULE Spec2Model ----
(***************************************************************************)
(* A model of script.js: the quad tree, the level objects, the actor       *)
(* (Player) update with its collision passes and one-shot object dispatch, *)
(* the trigger system, the frame pipeline (Game.update) and the editor's   *)
(* placement of objects.                                                   *)
(*                                                                         *)
(* Numbers.  The program computes in IEEE doubles; the model computes in   *)
(* integers.  A length or a velocity is counted in units of 1/10000 pixel  *)
(* (PX units to the pixel), in which every constant of the program         *)
(* (10.309, 0.89, 0.7 * 0.89, 0.9 * 30 / 2, ...) is a whole number.  A     *)
(* time is counted in units of 1/960 s, so that the fixed step 1/240 s is  *)
(* 4 units; speedMult is counted in tenths.  The only quotient that is not *)
(* whole is vx * step / 4 of Player.fixedStep, which the model rounds down *)
(* to the unit.                                                            *)
(***************************************************************************)
EXTENDS Integers, Sequences, FiniteSets, TLC

PX == 10 * 1000

TILE == 30 * PX
HEIGHT == 14 * TILE
BASE_WIDTH == 500 * TILE

\* The value of a property that an object does not carry (JS undefined).
Undef == "undefined"

(***************************************************************************)
(* QuadTree.  A node is a record; its four children nw, ne, sw, se are     *)
(* kids[1..4] (kids is empty until the node is divided).  A node stores    *)
(* references to level objects: the model stores their indices in the      *)
(* object sequence O the tree was built over, and reads an object's        *)
(* rectangle through O, as the program reads it through the reference.     *)
(***************************************************************************)
Capacity == 4

NewQuadTree(bounds) ==
    [bounds |-> bounds, capacity |-> Capacity, objects |-> <<>>,
     divided |-> FALSE, kids |-> <<>>]

intersects(a, b) ==
    /\ a.x < b.x + b.w
    /\ a.x + a.w > b.x
    /\ a.y < b.y + b.h
    /\ a.y + a.h > b.y

subdivide(n) ==
    LET x == n.bounds.x
        y == n.bounds.y
        w2 == n.bounds.w \div 2
        h2 == n.bounds.h \div 2
    IN  [n EXCEPT
           !.kids = << NewQuadTree([x |-> x, y |-> y, w |-> w2, h |-> h2]),
                       NewQuadTree([x |-> x + w2, y |-> y, w |-> w2, h |-> h2]),
                       NewQuadTree([x |-> x, y |-> y + h2, w |-> w2, h |-> h2]),
                       NewQuadTree([x |-> x + w2, y |-> y + h2, w |-> w2, h |-> h2]) >>,
           !.divided = TRUE]

\* insert(n, i, O): QuadTree.insert of object O[i] into node n; the result is
\* the value returned (ok) and the node afterwards (t).  insertSome is the
\* [nw, ne, sw, se].some(q => q.insert(obj)) of the last line, from child k on.
RECURSIVE insert(_, _, _)
RECURSIVE insertSome(_, _, _, _)
insertSome(n, i, O, k) ==
    IF k > 4 THEN [ok |-> FALSE, t |-> n]
    ELSE LET r == insert(n.kids[k], i, O)
             m == [n EXCEPT !.kids[k] = r.t]
         IN  IF r.ok THEN [ok |-> TRUE, t |-> m]
             ELSE insertSome(m, i, O, k + 1)

insert(n, i, O) ==
    IF ~intersects(n.bounds, O[i]) THEN [ok |-> FALSE, t |-> n]
    ELSE IF Len(n.objects) < n.capacity /\ ~n.divided
         THEN [ok |-> TRUE, t |-> [n EXCEPT !.objects = Append(@, i)]]
         ELSE insertSome(IF n.divided THEN n ELSE subdivide(n), i, O, 1)

\* query(n, range, O, found): QuadTree.query; the objects found, in the
\* order the program pushes them.
RECURSIVE query(_, _, _, _)
query(n, range, O, found) ==
    IF ~intersects(n.bounds, range) THEN found
    ELSE LET here == found \o SelectSeq(n.objects, LAMBDA i : intersects(range, O[i]))
         IN  IF n.divided
             THEN query(n.kids[4], range, O,
                    query(n.kids[3], range, O,
                      query(n.kids[2], range, O,
                        query(n.kids[1], range, O, here))))
             ELSE here

\* new QuadTree({x: 0, y: 0, w: level.width, h: level.height}) followed by
\* level.objects.forEach(o => quadTree.insert(o)).
\* The loop's state s is the tree so far (t) and the index of the next object (k).
RECURSIVE insertAll(_, _)
insertAll(s, O) ==
    IF s.k > Len(O) THEN s.t
    ELSE insertAll([t |-> insert(s.t, s.k, O).t, k |-> s.k + 1], O)

LevelBounds(level) == [x |-> 0, y |-> 0, w |-> level.width, h |-> level.height]

Rebuild(level) ==
    insertAll([t |-> NewQuadTree(LevelBounds(level)), k |-> 1], level.objects)

(***************************************************************************)
(* Level objects.  Every object is a record with the same fields; a field  *)
(* the program leaves out holds Undef (a name) or NoNum (a number).        *)
(* used is the one-shot flag (absent, so falsy, on a fresh object).        *)
(***************************************************************************)
NoNum == 0 - 1

Obj(x, y, w, h, type) ==
    [x |-> x, y |-> y, w |-> w, h |-> h, type |-> type,
     effect |-> Undef, value |-> Undef, group |-> NoNum, targetGroup |-> NoNum,
     dx |-> NoNum, dy |-> NoNum, color |-> NoNum, alpha |-> NoNum, id |-> NoNum,
     targetX |-> NoNum, targetY |-> NoNum, used |-> FALSE]

\* The helpers of generateLevel.  A position or a y offset is given in tenths
\* of a tile (the program's levels place objects at fractions of a tile).
Tenths(p10) == (p10 * TILE) \div 10

addGround(start, end) ==
    [k \in 1..(end - start) |->
        [Obj((start + k - 1) * TILE, HEIGHT - TILE \div 2, TILE, TILE \div 2, "block")
            EXCEPT !.group = 1]]

addSpike(pos10) == Obj(Tenths(pos10), HEIGHT - TILE, TILE, TILE, "spike")

addOrb(pos10, yOff10, type) ==
    [Obj(Tenths(pos10), HEIGHT - Tenths(yOff10), TILE, TILE, "orb") EXCEPT !.effect = type]

addPortal(pos10, effect, value) ==
    [Obj(Tenths(pos10), HEIGHT - 2 * TILE, (3 * TILE) \div 2, TILE \div 2, "portal")
        EXCEPT !.effect = effect, !.value = value]

addCoin(pos10, yOff10, id) ==
    [Obj(Tenths(pos10), HEIGHT - Tenths(yOff10), TILE, TILE, "coin") EXCEPT !.id = id]

addFinish(width) == Obj(width - TILE, HEIGHT - (3 * TILE) \div 2, TILE, TILE, "finish")

addTrigger(pos10, effect, targetGroup) ==
    [Obj(Tenths(pos10), HEIGHT - TILE, TILE, TILE, "trigger")
        EXCEPT !.effect = effect, !.targetGroup = targetGroup]

(***************************************************************************)
(* MODES, in position units per game-time unit.                            *)
(***************************************************************************)
Mode(baseSpeed, gravity, jump, thrust, speed) ==
    [baseSpeed |-> baseSpeed, gravity |-> gravity, jump |-> jump,
     thrust |-> thrust, speed |-> speed]

MODES ==
    [cube   |-> Mode((10309 * PX) \div 1000, (89 * PX) \div 100, 0 - (112 * PX) \div 10, 0, 0),
     ship   |-> Mode((125 * PX) \div 10, (5 * PX) \div 10, 0, (7 * PX) \div 10, 0),
     ball   |-> Mode((10309 * PX) \div 1000, 0, 0, 0, 0),
     ufo    |-> Mode((10309 * PX) \div 1000, (89 * PX) \div 200, 0 - (85 * PX) \div 10, 0, 0),
     wave   |-> Mode(13 * PX, 0, 0, 0, 15 * PX),
     robot  |-> Mode((10309 * PX) \div 1000, (11 * PX) \div 10, 0 - 15 * PX, 0, 0),
     spider |-> Mode((10309 * PX) \div 1000, 0, 0 - (112 * PX) \div 10, 0, 0),
     swing  |-> Mode(12 * PX, (6 * PX) \div 10, 0, (8 * PX) \div 10, 0)]

ModeNames == {"cube", "ship", "ball", "ufo", "wave", "robot", "spider", "swing"}

(***************************************************************************)
(* Player.  rot, trail, color and size (always 1) are cosmetic or constant *)
(* and are left out.                                                       *)
(***************************************************************************)
PlayerReset ==
    [x |-> TILE * 3, y |-> HEIGHT - (TILE * 3) \div 2, vx |-> MODES.cube.baseSpeed,
     vy |-> 0, mode |-> "cube", flip |-> 1, mini |-> FALSE, active |-> TRUE,
     onGround |-> TRUE, jumpHold |-> 0, dashHold |-> FALSE, mirror |-> FALSE]

\* TILE * size * (mini ? 0.5 : 1) * 0.9, and the box centred on (x, y).
BoxSize(p) == IF p.mini THEN (TILE * 9) \div 20 ELSE (TILE * 9) \div 10

getBBox(p) ==
    LET s == BoxSize(p)
    IN  [x |-> p.x - s \div 2, y |-> p.y - s \div 2, w |-> s, h |-> s]

collide(a, b) ==
    /\ a.x < b.x + b.w
    /\ a.x + a.w > b.x
    /\ a.y < b.y + b.h
    /\ a.y + a.h > b.y

\* Time: DT units to the second; the fixed step 1/240 s; gdt = step * 240.
DT == 4 * 240
STEP == DT \div 240
gdt == (STEP * 240) \div DT

\* The sub-step, were it to stop a falling actor at the ground line too.
fixedStepLanding(p) ==
    [p EXCEPT !.x = @ + (p.vx * STEP) \div (4 * DT),
              !.y = @ + (p.vy * STEP) \div (4 * DT),
              !.vy = 0, !.onGround = TRUE]

\* Player.fixedStep(step): x += vx * step / 4, y += vy * step / 4.
fixedStep(p) ==
    [p EXCEPT !.x = @ + (p.vx * STEP) \div (4 * DT),
              !.y = @ + (p.vy * STEP) \div (4 * DT)]

\* Player.jump(hold).
jump(p, hold) ==
    IF p.onGround \/ hold THEN [p EXCEPT !.vy = MODES[p.mode].jump * p.flip] ELSE p

Max(a, b) == IF a > b THEN a ELSE b
Min(a, b) == IF a < b THEN a ELSE b

\* Player.update, first part: the velocities, the held-input counter, the
\* per-mode rule and the displacement of the tick.  speedMult is in tenths.
PlayerMove(p, speedMult, input) ==
    LET m == MODES[p.mode]
        vx == ((m.baseSpeed * speedMult) \div 10) * (IF p.mirror THEN 0 - 1 ELSE 1)
        vy0 == p.vy + (m.gravity * p.flip * gdt * (IF p.mini THEN 7 ELSE 10)) \div 10
        jh == IF input THEN p.jumpHold + gdt ELSE 0
        thrust == IF input THEN 0 - m.thrust * gdt ELSE m.thrust * gdt
        q == [p EXCEPT !.vx = vx, !.vy = vy0, !.jumpHold = jh]
        r == CASE p.mode = "cube" ->
                    IF p.onGround /\ jh = gdt THEN [q EXCEPT !.vy = m.jump * p.flip] ELSE q
               [] p.mode = "ship" -> [q EXCEPT !.vy = vy0 + thrust]
               [] p.mode = "ball" ->
                    [q EXCEPT !.flip = IF jh = gdt THEN 0 - p.flip ELSE p.flip, !.vy = 0]
               [] p.mode = "ufo" ->
                    [q EXCEPT !.vy = Max(Min(IF jh = gdt THEN m.jump * p.flip ELSE vy0,
                                             10 * PX), 0 - 10 * PX)]
               [] p.mode = "wave" ->
                    [q EXCEPT !.vy = (IF input THEN 0 - 1 ELSE 1) * m.speed * p.flip]
               [] p.mode = "robot" ->
                    IF p.onGround /\ jh > 10
                    THEN [q EXCEPT !.vy = (m.jump * p.flip * jh) \div 20] ELSE q
               [] p.mode = "spider" ->
                    IF jh = gdt
                    THEN [q EXCEPT !.flip = 0 - p.flip, !.vy = m.jump * (0 - p.flip)] ELSE q
               [] p.mode = "swing" -> [q EXCEPT !.vy = vy0 + thrust]
    IN  [r EXCEPT !.x = @ + r.vx * gdt, !.y = @ + r.vy * gdt, !.onGround = FALSE]

\* The X pass over vis (from item k on); bbox is the box taken before it.
RECURSIVE XPass(_, _, _, _, _)
XPass(p, bbox, vis, O, k) ==
    IF k > Len(vis) THEN p
    ELSE LET o == O[vis[k]]
         IN  IF o.type = "block" /\ collide([bbox EXCEPT !.x = p.x], o)
             THEN XPass([p EXCEPT !.x = IF p.vx > 0 THEN o.x - bbox.w ELSE o.x + o.w],
                        bbox, vis, O, k + 1)
             ELSE XPass(p, bbox, vis, O, k + 1)

\* A Y pass that puts a falling actor on the block and lets it keep falling.
RECURSIVE YPassFalling(_, _, _, _, _)
YPassFalling(p, bbox, vis, O, k) ==
    IF k > Len(vis) THEN p
    ELSE LET o == O[vis[k]]
         IN  IF o.type = "block" /\ collide([bbox EXCEPT !.y = p.y], o)
             THEN YPassFalling([p EXCEPT !.y = IF p.flip > 0 THEN o.y - bbox.h ELSE o.y + o.h],
                               bbox, vis, O, k + 1)
             ELSE YPassFalling(p, bbox, vis, O, k + 1)

\* The Y pass over vis (from item k on).
RECURSIVE YPass(_, _, _, _, _)
YPass(p, bbox, vis, O, k) ==
    IF k > Len(vis) THEN p
    ELSE LET o == O[vis[k]]
         IN  IF o.type = "block" /\ collide([bbox EXCEPT !.y = p.y], o)
             THEN YPass(IF p.vy * p.flip > 0
                        THEN [p EXCEPT !.y = IF p.flip > 0 THEN o.y - bbox.h ELSE o.y + o.h,
                                       !.vy = 0, !.onGround = TRUE]
                        ELSE [p EXCEPT !.y = IF p.flip > 0 THEN o.y + o.h ELSE o.y - bbox.h,
                                       !.vy = 0],
                        bbox, vis, O, k + 1)
             ELSE YPass(p, bbox, vis, O, k + 1)

(***************************************************************************)
(* Game.  The variables are the fields of the Game object (and of its      *)
(* Editor), plus two history variables that record what a step did:        *)
(*   hist[i]  for object i of the current level objects: over, whether an  *)
(*            actor's box has overlapped it at the dispatch of a           *)
(*            Player.update; dies, how often Game.die was called for it;   *)
(*            fired, how often Game.handleTrigger applied its effect;      *)
(*            modeAfter, the actor's mode at the end of the Player.update  *)
(*            in which it was first overlapped;                            *)
(*   last     for the last step: op, its name; reload, whether it called   *)
(*            Game.loadLevel; trig, the triggers, unused before the step,  *)
(*            that the actor's box overlapped in Game.updateTriggers;      *)
(*            noop, the pairs of a handler and an object it was called for *)
(*            while the object was used; life, the life drawn for the      *)
(*            particles it spawned; n, in a run of calls that is counted,  *)
(*            the calls made so far; fixed, the calls of Game.fixedUpdate  *)
(*            it made; gap, in a frame of Game.loop, the time since the    *)
(*            frame before, and dt, the time it passed to Game.update;     *)
(*            played, the places in the log of the events Game.playReplay  *)
(*            reissued, in the order it did; since, in a run of calls that *)
(*            is counted, the time at which the replay button last         *)
(*            switched replay on.                                          *)
(* hist is reset whenever the level objects are replaced.                  *)
(***************************************************************************)
VARIABLES state, paused, practice, replayMode, checkpoints, currentCP,
          level, levelId, quadTree, player, player2, time, accumulator,
          speedMult, coins, orbs, stars, frameCount, keys,
          particlesPool, particles, activeParticles, replays, replayIndex,
          editor, hist, last

vars == << state, paused, practice, replayMode, checkpoints, currentCP,
           level, levelId, quadTree, player, player2, time, accumulator,
           speedMult, coins, orbs, stars, frameCount, keys,
           particlesPool, particles, activeParticles, replays, replayIndex,
           editor, hist, last >>

\* The Game object as one record, for the operators that model its methods.
G ==
    [state |-> state, paused |-> paused, practice |-> practice,
     replayMode |-> replayMode, checkpoints |-> checkpoints, currentCP |-> currentCP,
     level |-> level, levelId |-> levelId, quadTree |-> quadTree, player |-> player,
     player2 |-> player2, time |-> time, accumulator |-> accumulator,
     speedMult |-> speedMult, coins |-> coins, orbs |-> orbs, stars |-> stars,
     frameCount |-> frameCount, keys |-> keys, particlesPool |-> particlesPool,
     particles |-> particles, activeParticles |-> activeParticles,
     replays |-> replays, replayIndex |-> replayIndex, editor |-> editor,
     hist |-> hist, last |-> last]

Commit(g) ==
    /\ state' = g.state /\ paused' = g.paused /\ practice' = g.practice
    /\ replayMode' = g.replayMode /\ checkpoints' = g.checkpoints
    /\ currentCP' = g.currentCP /\ level' = g.level /\ levelId' = g.levelId
    /\ quadTree' = g.quadTree /\ player' = g.player /\ player2' = g.player2
    /\ time' = g.time /\ accumulator' = g.accumulator /\ speedMult' = g.speedMult
    /\ coins' = g.coins /\ orbs' = g.orbs /\ stars' = g.stars
    /\ frameCount' = g.frameCount /\ keys' = g.keys
    /\ particlesPool' = g.particlesPool /\ particles' = g.particles
    /\ activeParticles' = g.activeParticles /\ replays' = g.replays
    /\ replayIndex' = g.replayIndex /\ editor' = g.editor
    /\ hist' = g.hist /\ last' = g.last

PoolSize == 1000

\* The particle lives Particle.init can draw (Math.random() * 0.5 + 0.5 s).
LifeDraws == {DT \div 2, DT - 1}

FreshHist(objects) ==
    [i \in 1..Len(objects) |->
        [over |-> FALSE, dies |-> 0, fired |-> 0, modeAfter |-> Undef]]

NewLast(op, life) ==
    [op |-> op, reload |-> FALSE, trig |-> {}, noop |-> {}, life |-> life,
     n |-> 0, fixed |-> 0, gap |-> 0, dt |-> 0, played |-> << >>,
     since |-> 0]

\* level and quadTree are null until a level is loaded or the editor opened:
\* the model holds a level without objects and a tree over it.
NullLevel == [objects |-> <<>>, width |-> 0, height |-> 0]

NewEditor ==
    [currentType |-> "block", currentColor |-> 0, mouse |-> [x |-> 0, y |-> 0, down |-> FALSE],
     gridSnap |-> TRUE, undoStack |-> <<>>, redoStack |-> <<>>, selected |-> NoNum]

GameInit ==
    [state |-> "menu", paused |-> FALSE, practice |-> FALSE, replayMode |-> FALSE,
     checkpoints |-> <<>>, currentCP |-> NoNum, level |-> NullLevel, levelId |-> 0,
     quadTree |-> Rebuild(NullLevel), player |-> PlayerReset, player2 |-> PlayerReset,
     time |-> 0, accumulator |-> 0, speedMult |-> 10, coins |-> 0, orbs |-> 0,
     stars |-> 0, frameCount |-> 0, keys |-> {},
     particlesPool |-> [i \in 1..PoolSize |-> i],
     particles |-> [i \in 1..PoolSize |-> 0], activeParticles |-> 0,
     replays |-> <<>>, replayIndex |-> 0, editor |-> NewEditor,
     hist |-> <<>>, last |-> NewLast("new", 0)]

(***************************************************************************)
(* generateLevel.  The program's levels are 100 to 600 tiles long; the     *)
(* model's levels are a few tiles long and are built with the same         *)
(* helpers in the same order (ground first), so that the actor meets       *)
(* their objects within a few frames of the spawn point:                   *)
(*   1  a coin above the spawn point and a spike half a tile ahead;        *)
(*   2  a spike across the vertical midline of the level, half a tile      *)
(*      behind the spawn point, and a move trigger one tile ahead;         *)
(*   3  a ship portal at the spawn point;                                  *)
(*   4  a 4x speed portal at the spawn point and a ship portal across the  *)
(*      midline of the level;                                              *)
(*   5  a dual portal at the spawn point and a spike half a tile ahead;    *)
(*   6  a 2x speed portal at the spawn point and a spike a tile and a half *)
(*      ahead;                                                             *)
(*   7  a spike at the spawn point and a coin in the same place.           *)
(***************************************************************************)
LevelIds == {1, 2, 3, 4, 5, 7}

MoveTrigger(pos10, targetGroup, dx, dy) ==
    [addTrigger(pos10, "move", targetGroup) EXCEPT !.dx = dx, !.dy = dy]

LevelOf(tiles, objects) ==
    [objects |-> addGround(0, tiles) \o objects \o << addFinish(tiles * TILE) >>,
     width |-> tiles * TILE, height |-> HEIGHT]

generateLevel(id) ==
    CASE id = 1 -> LevelOf(6, << addSpike(35), addCoin(30, 20, 1) >>)
      [] id = 2 -> LevelOf(6, << addSpike(25), MoveTrigger(40, 1, 50 * PX, 0) >>)
      [] id = 3 -> LevelOf(8, << addPortal(30, "mode", "ship") >>)
      [] id = 4 -> LevelOf(11, << addPortal(30, "speed", 40), addPortal(52, "mode", "ship") >>)
      [] id = 5 -> LevelOf(6, << addPortal(30, "dual", Undef), addSpike(35) >>)
      [] id = 6 -> LevelOf(8, << addPortal(30, "speed", 20), addSpike(45) >>)
      [] id = 7 -> LevelOf(6, << addSpike(30), addCoin(30, 10, 1) >>)

\* Game.setState, for the states without a screen of their own to set up.
setState(g, s) ==
    [g EXCEPT !.state = s, !.paused = IF s = "game" THEN FALSE ELSE @]

\* Game.loadLevel(id), lv being the level generateLevel(id) returns.
install(g, id, lv) ==
    [setState(g, "game") EXCEPT
        !.levelId = id, !.level = lv, !.quadTree = Rebuild(lv),
        !.player = PlayerReset,
        !.player2 = [PlayerReset EXCEPT !.active = FALSE],
        !.time = 0, !.currentCP = 0, !.activeParticles = 0,
        !.coins = 0, !.orbs = 0, !.replays = <<>>, !.speedMult = 10,
        !.hist = FreshHist(lv.objects),
        !.last = [g.last EXCEPT !.reload = TRUE]]

loadLevel(g, id) == install(g, id, generateLevel(id))

restart(g) == loadLevel(g, g.levelId)

\* One iteration of the loop of Game.addParticle: the pool entry after the
\* active ones is initialised, if the pool has one.
particleInit(g) ==
    IF g.activeParticles >= Len(g.particlesPool) THEN g
    ELSE [g EXCEPT !.particles[g.particlesPool[g.activeParticles + 1]] = g.last.life,
                   !.activeParticles = @ + 1]

\* A spawn that counts every requested particle as active.
addParticleUnclamped(g, count) == [g EXCEPT !.activeParticles = @ + count]

\* Game.addParticle(x, y, type, count): the loop makes count iterations, one
\* after the other, unless the pool is used up before (break).
RECURSIVE addParticle(_, _)
addParticle(g, count) ==
    IF g.activeParticles >= Len(g.particlesPool) \/ count <= 0 THEN g
    ELSE IF count = 1 THEN particleInit(g)
    ELSE addParticle(addParticle(g, count \div 2), count - count \div 2)

win(g) == setState(g, "menu")

\* A death that, on a checkpoint respawn, makes every object of the level
\* fresh again.
dieClearsUsed(g, i) ==
    LET g1 == addParticle(g, 50)
        g2 == IF g1.last.reload THEN g1 ELSE [g1 EXCEPT !.hist[i].dies = @ + 1]
    IN  IF g2.practice /\ Len(g2.checkpoints) > 0
        THEN LET cp == g2.checkpoints[g2.currentCP + 1]
             IN  [g2 EXCEPT !.player = cp.p1,
                            !.player2 = IF g2.player2.active THEN cp.p2 ELSE @,
                            !.level.objects = [k \in DOMAIN @ |-> [@[k] EXCEPT !.used = FALSE]]]
        ELSE restart(g2)

\* Game.die(player); i is the object handleObject was called with.
die(g, i) ==
    LET g1 == addParticle(g, 50)
        g2 == IF g1.last.reload THEN g1 ELSE [g1 EXCEPT !.hist[i].dies = @ + 1]
    IN  IF g2.practice /\ Len(g2.checkpoints) > 0
        THEN LET cp == g2.checkpoints[g2.currentCP + 1]
             IN  [g2 EXCEPT !.player = cp.p1,
                            !.player2 = IF g2.player2.active THEN cp.p2 ELSE @]
        ELSE restart(g2)

\* The one-shot test that never finds an object used.
isUsedNever(o) == FALSE

\* if (o.used) return: the one-shot test of both handlers.
isUsed(o) == o.used

\* Note in last.noop that handler h is called for object i while it is used.
Note(g, h, i) ==
    IF ~g.last.reload /\ g.level.objects[i].used
    THEN [g EXCEPT !.last.noop = @ \cup {<< h, i >>}] ELSE g

\* A number that is not one (the product with an undefined factor): a value
\* apart from every number the model computes with.
NaN == 0 - 2^30

\* jumps[o.effect] of the orb branch, in tenths.
JumpKinds == {"yellow", "green", "red", "dash"}

JumpFactor(effect) ==
    CASE effect = "yellow" -> 10
      [] effect = "green" -> 12
      [] effect = "red" -> 8
      [] effect = "dash" -> 0

\* MODES[mode].jump * flip * jumps[effect].
OrbJump(p, effect) ==
    IF effect \in JumpKinds
    THEN (MODES[p.mode].jump * p.flip * JumpFactor(effect)) \div 10
    ELSE NaN

\* The portal branch, were a gravity portal to switch mini as well and a
\* speed portal to add to the multiplier.
portalMixed(g, who, o) ==
    CASE o.effect = "gravity" -> [g EXCEPT ![who].flip = 0 - @, ![who].mini = ~@]
      [] o.effect = "mini" -> [g EXCEPT ![who].mini = ~@]
      [] o.effect = "mirror" -> [g EXCEPT ![who].mirror = ~@]
      [] o.effect = "dual" -> [g EXCEPT !.player2.active = ~@]
      [] o.effect = "speed" -> [g EXCEPT !.speedMult = @ + o.value]
      [] o.effect = "mode" -> [g EXCEPT ![who].mode = o.value]
      [] OTHER -> g

\* The portal branch of Player.handleObject: one if per effect.
portal(g, who, o) ==
    CASE o.effect = "gravity" -> [g EXCEPT ![who].flip = 0 - @]
      [] o.effect = "mini" -> [g EXCEPT ![who].mini = ~@]
      [] o.effect = "mirror" -> [g EXCEPT ![who].mirror = ~@]
      [] o.effect = "dual" -> [g EXCEPT !.player2.active = ~@]
      [] o.effect = "speed" -> [g EXCEPT !.speedMult = o.value]
      [] o.effect = "mode" -> [g EXCEPT ![who].mode = o.value]
      [] OTHER -> g

\* Player.handleObject(o) of actor who ("player" or "player2"), o being item
\* i of O, the objects the loop of Player.update runs over.  Once
\* Game.loadLevel has run inside that loop (last.reload), O are the objects
\* of the level that was replaced, and the level in force is not touched.
handleObject(g, who, O, i) ==
    LET o == O[i]
        g1 == IF g.last.reload THEN g ELSE [g EXCEPT !.level.objects[i].used = TRUE]
        p == g1[who]
    IN  IF isUsed(o) THEN g
        ELSE CASE o.type = "portal" -> portal(g1, who, o)
               [] o.type = "tele" -> [g1 EXCEPT ![who].x = o.targetX, ![who].y = o.targetY]
               [] o.type = "orb" ->
                    LET g2 == [g1 EXCEPT
                                 ![who].vy = OrbJump(p, o.effect),
                                 ![who].dashHold = IF o.effect = "dash" THEN TRUE ELSE @]
                        g3 == addParticle(g2, 30)
                    IN  IF o.id # NoNum /\ o.id # 0 THEN [g3 EXCEPT !.orbs = @ + 1] ELSE g3
               [] o.type = "pad" ->
                    addParticle([g1 EXCEPT ![who].vy = (MODES[p.mode].jump * p.flip * 15) \div 10],
                                20)
               [] o.type = "coin" -> addParticle([g1 EXCEPT !.coins = @ + 1], 40)
               [] o.type = "finish" -> win(g1)
               [] o.type = "spike" -> die(g1, i)
               [] OTHER -> g1

\* The last loop of Player.update: handleObject for every item of vis that
\* the box taken before the passes overlaps (from item k on).
RECURSIVE Dispatch(_, _, _, _, _, _)
Dispatch(g, who, bbox, vis, O, k) ==
    IF k > Len(vis) THEN g
    ELSE Dispatch(IF collide(bbox, O[vis[k]])
                  THEN handleObject(Note(g, "handleObject", vis[k]), who, O, vis[k]) ELSE g,
                  who, bbox, vis, O, k + 1)

Input(ks) == "Space" \in ks \/ "ArrowUp" \in ks

\* The end of Player.update for the history: the objects first overlapped in
\* this update get the actor's mode after the dispatch.
markFirst(g, who, first) ==
    IF g.last.reload THEN g
    ELSE [g EXCEPT !.hist = [i \in DOMAIN @ |->
                                IF i \in first
                                THEN [@[i] EXCEPT !.modeAfter = g[who].mode]
                                ELSE @[i]]]

\* Player.update after the displacement: p1 is the actor displaced, bbox its
\* box, vis the result of the query; the two passes, then the dispatch.
PlayerCollide(g, who, p1, bbox, vis) ==
    LET O == g.level.objects
        over == { i \in 1..Len(O) : collide(bbox, O[i]) }
    IN  markFirst(Dispatch([g EXCEPT ![who] = YPass(XPass(p1, bbox, vis, O, 1), bbox, vis, O, 1),
                                     !.hist = [i \in DOMAIN @ |->
                                                 IF i \in over
                                                 THEN [@[i] EXCEPT !.over = TRUE]
                                                 ELSE @[i]]],
                           who, bbox, vis, O, 1),
                  who, { i \in over : ~g.hist[i].over })

\* const bbox = this.getBBox(); const vis = quadTree.query(bbox).
PlayerQuery(g, who, p1, bbox) ==
    PlayerCollide(g, who, p1, bbox, query(g.quadTree, bbox, g.level.objects, << >>))

\* Player.update(step, keys, quadTree) of actor who.
PlayerUpdate(g, who) ==
    PlayerQuery(g, who, PlayerMove(g[who], g.speedMult, Input(g.keys)),
                getBBox(PlayerMove(g[who], g.speedMult, Input(g.keys))))

\* n calls of Game.fixedUpdate(step), one after the other.
RECURSIVE fixedUpdate(_, _)
fixedUpdate(g, n) ==
    IF n = 0 THEN g
    ELSE fixedUpdate([g EXCEPT !.player = fixedStep(@),
                               !.player2 = IF @.active THEN fixedStep(@) ELSE @,
                               !.last.fixed = @ + 1],
                     n - 1)

\* One iteration of the loop of Game.updateParticles, s.i being the index
\* (counted from 0, as the program counts).  A particle is a pool entry;
\* Particle.update takes the step off its life and reports whether life is
\* left; a particle without is replaced by the last active one, and the
\* index stays.
particleStep(s) ==
    IF s.i >= s.g.activeParticles THEN s
    ELSE LET id == s.g.particlesPool[s.i + 1]
             life == s.g.particles[id] - STEP
             a == s.g.activeParticles - 1
         IN  IF life > 0
             THEN [g |-> [s.g EXCEPT !.particles[id] = life], i |-> s.i + 1]
             ELSE [g |-> [s.g EXCEPT !.particles[id] = life,
                                     !.activeParticles = a,
                                     !.particlesPool[s.i + 1] = s.g.particlesPool[a + 1]],
                   i |-> s.i]

\* n iterations of the loop, one after the other.
RECURSIVE particleLoop(_, _)
particleLoop(s, n) ==
    IF s.i >= s.g.activeParticles \/ n <= 0 THEN s
    ELSE IF n = 1 THEN particleStep(s)
    ELSE particleLoop(particleLoop(s, n \div 2), n - n \div 2)

\* Game.updateParticles(step), from index i on.  Every iteration either
\* advances the index or takes one off activeParticles, so the loop makes
\* activeParticles - i iterations.
updateParticles(g, i) == particleLoop([g |-> g, i |-> i], g.activeParticles - i).g

\* v += d of numbers, d being NoNum where the field is absent: the sum with
\* an undefined term, or with one that is not a number, is not a number.
Plus(v, d) == IF v = NaN \/ d = NaN \/ d = NoNum THEN NaN ELSE v + d

\* The filter that takes every object for a member of the target group.
inGroupAny(obj, o) == TRUE

\* obj.group === o.targetGroup, the filter of the three effects.
inGroup(obj, o) == obj.group = o.targetGroup

\* Game.handleTrigger(o), o being object i of the level.
handleTrigger(g, i) ==
    LET o == g.level.objects[i]
        hit(obj) == inGroup(obj, o)
        g1 == [g EXCEPT !.level.objects[i].used = TRUE, !.hist[i].fired = @ + 1]
        O1 == g1.level.objects
    IN  IF isUsed(o) THEN g
        ELSE CASE o.effect = "move" ->
                    LET lv == [g1.level EXCEPT
                                 !.objects = [j \in DOMAIN O1 |->
                                                IF hit(O1[j])
                                                THEN [O1[j] EXCEPT !.x = Plus(@, o.dx), !.y = Plus(@, o.dy)]
                                                ELSE O1[j]]]
                    IN  [g1 EXCEPT !.level = lv, !.quadTree = Rebuild(lv)]
               [] o.effect = "color" ->
                    [g1 EXCEPT !.level.objects =
                        [j \in DOMAIN O1 |->
                            IF hit(O1[j]) THEN [O1[j] EXCEPT !.color = o.color] ELSE O1[j]]]
               [] o.effect = "alpha" ->
                    [g1 EXCEPT !.level.objects =
                        [j \in DOMAIN O1 |->
                            IF hit(O1[j]) THEN [O1[j] EXCEPT !.alpha = o.alpha] ELSE O1[j]]]
               [] OTHER -> g1

\* Game.updateTriggers: the loop over the query result vis, from item k on.
RECURSIVE triggerLoop(_, _, _, _)
triggerLoop(g, bbox, vis, k) ==
    IF k > Len(vis) THEN g
    ELSE LET o == g.level.objects[vis[k]]
         IN  triggerLoop(IF o.type = "trigger" /\ collide(bbox, o)
                         THEN handleTrigger(Note(g, "handleTrigger", vis[k]), vis[k]) ELSE g,
                         bbox, vis, k + 1)

\* Game.updateTriggers.  Oold are the level objects as they were before the
\* frame; they tell which triggers were unused then, unless the frame has
\* replaced the level.
updateTriggers(g, Oold) ==
    LET bbox == getBBox(g.player)
        O == g.level.objects
        O0 == IF g.last.reload THEN O ELSE Oold
        trig == { i \in 1..Len(O) : /\ O[i].type = "trigger"
                                    /\ collide(bbox, O[i])
                                    /\ ~O0[i].used }
    IN  triggerLoop([g EXCEPT !.last.trig = trig], bbox,
                    query(g.quadTree, bbox, O, << >>), 1)

checkWin(g) ==
    IF /\ g.player.x > g.level.width
       /\ (~g.player2.active \/ g.player2.x > g.level.width)
    THEN win([g EXCEPT !.stars = @ + 1])
    ELSE g

\* The recording, were the newest entry put first.
recordReplayFirst(g, action) ==
    [g EXCEPT !.replays = << [frame |-> g.time * 240, action |-> action] >> \o @]

\* Game.recordReplay(action): frame is time * 240.
recordReplay(g, action) ==
    [g EXCEPT !.replays = Append(@, [frame |-> g.time * 240, action |-> action])]

RECURSIVE playReplay(_)
playReplay(g) ==
    IF /\ g.replayIndex < Len(g.replays)
       /\ g.replays[g.replayIndex + 1].frame <= g.time * 240
    THEN LET action == g.replays[g.replayIndex + 1].action
             g1 == [g EXCEPT !.replayIndex = @ + 1,
                             !.last.played = Append(@, g.replayIndex + 1)]
         IN  playReplay(CASE action = "jump" -> [g1 EXCEPT !.player = jump(@, TRUE)]
                          [] action = "release" -> [g1 EXCEPT !.player = jump(@, FALSE)]
                          [] OTHER -> g1)
    ELSE g

(***************************************************************************)
(* Editor.  The editor's level is the blank one (no level is saved in the  *)
(* browser's storage).  selected is the index of the selected object in    *)
(* level.objects, NoNum for none.                                          *)
(***************************************************************************)
BlankLevel == [objects |-> << >>, width |-> BASE_WIDTH, height |-> HEIGHT]

\* Game.setState('editor'), which runs Editor.init.
\* selected holds a reference to an object; once level.objects is replaced
\* (by Editor.init or by the JSON.parse copies of undo and redo) or emptied,
\* the reference is to an object no longer in the level: 0, which is no index.
Detached(sel) == IF sel = NoNum THEN NoNum ELSE 0

editorInit(g) ==
    [g EXCEPT !.state = "editor", !.level = BlankLevel, !.quadTree = Rebuild(BlankLevel),
              !.editor.selected = Detached(@), !.hist = << >>]

\* JSON.parse(JSON.stringify(objects)): a NaN coordinate is written as null,
\* which counts as 0 in the arithmetic and the comparisons made on it; every
\* other field the objects have is a finite number, a string or a boolean and
\* comes back as it was.
JsonCopy(objects) ==
    [i \in 1..Len(objects) |->
        [objects[i] EXCEPT !.x = IF @ = NaN THEN 0 ELSE @,
                           !.y = IF @ = NaN THEN 0 ELSE @]]

\* Math.round(v / TILE) * TILE.
Snap(v) == ((2 * v + TILE) \div (2 * TILE)) * TILE

\* Editor.handleInput(down); group is the group drawn for the new object.
editorHandleInput(g, down, group) ==
    IF ~down THEN g
    ELSE LET e == g.editor
             x == IF e.gridSnap THEN Snap(e.mouse.x) ELSE e.mouse.x
             y == IF e.gridSnap THEN Snap(e.mouse.y) ELSE e.mouse.y
             obj == [Obj(x, y, TILE, TILE, e.currentType)
                        EXCEPT !.color = e.currentColor, !.group = group, !.alpha = 100]
             O == Append(g.level.objects, obj)
         IN  [g EXCEPT !.editor.undoStack = Append(@, JsonCopy(g.level.objects)),
                       !.editor.redoStack = << >>,
                       !.level.objects = O,
                       !.quadTree = insert(@, Len(O), O).t,
                       !.hist = FreshHist(O)]

\* Editor.update(dt): delete the selected object on KeyD, select on a held
\* mouse button (the camera keys are left out).
editorUpdate(g) ==
    LET e == g.editor
        g1 == IF "KeyD" \in g.keys /\ e.selected # NoNum
              THEN LET O == IF e.selected \in 1..Len(g.level.objects)
                            THEN [j \in 1..(Len(g.level.objects) - 1) |->
                                     IF j < e.selected THEN g.level.objects[j]
                                     ELSE g.level.objects[j + 1]]
                            ELSE g.level.objects
                       lv == [g.level EXCEPT !.objects = O]
                   IN  [g EXCEPT !.level = lv, !.quadTree = Rebuild(lv),
                                 !.editor.selected = NoNum, !.hist = FreshHist(O)]
              ELSE g
        m == g1.editor.mouse
        vis == query(g1.quadTree,
                     [x |-> m.x - TILE \div 2, y |-> m.y - TILE \div 2, w |-> TILE, h |-> TILE],
                     g1.level.objects, << >>)
    IN  IF m.down
        THEN [g1 EXCEPT !.editor.selected = IF Len(vis) > 0 THEN vis[1] ELSE NoNum]
        ELSE g1

\* Editor.undo().
undo(g) ==
    LET e == g.editor
    IN  IF Len(e.undoStack) = 0 THEN g
        ELSE LET O == e.undoStack[Len(e.undoStack)]
                 lv == [g.level EXCEPT !.objects = O]
             IN  [g EXCEPT !.editor.redoStack = Append(@, JsonCopy(g.level.objects)),
                           !.editor.undoStack = SubSeq(@, 1, Len(@) - 1),
                           !.editor.selected = Detached(@),
                           !.level = lv, !.quadTree = Rebuild(lv),
                           !.hist = FreshHist(O)]

\* Editor.redo().
redo(g) ==
    LET e == g.editor
    IN  IF Len(e.redoStack) = 0 THEN g
        ELSE LET O == e.redoStack[Len(e.redoStack)]
                 lv == [g.level EXCEPT !.objects = O]
             IN  [g EXCEPT !.editor.undoStack = Append(@, JsonCopy(g.level.objects)),
                           !.editor.redoStack = SubSeq(@, 1, Len(@) - 1),
                           !.editor.selected = Detached(@),
                           !.level = lv, !.quadTree = Rebuild(lv),
                           !.hist = FreshHist(O)]

\* Editor.clear() without the new QuadTree.
clearKeepsIndex(g) ==
    [g EXCEPT !.editor.undoStack = Append(@, JsonCopy(g.level.objects)),
              !.editor.selected = Detached(@),
              !.level.objects = << >>,
              !.hist = << >>]

\* Editor.clear().
clear(g) ==
    [g EXCEPT !.editor.undoStack = Append(@, JsonCopy(g.level.objects)),
              !.editor.selected = Detached(@),
              !.level.objects = << >>,
              !.quadTree = NewQuadTree(LevelBounds(g.level)),
              !.hist = << >>]

(***************************************************************************)
(* Game.update(dt) and the event handlers.                                 *)
(***************************************************************************)
\* this.time += dt * this.speedMult; this.accumulator += dt.
advance(g, dt) == [g EXCEPT !.time = @ + dt * g.speedMult, !.accumulator = @ + dt]

\* The loop, were the rest of the accumulator dropped after it.
stepLoopDrop(g) ==
    [fixedUpdate(g, g.accumulator \div STEP) EXCEPT !.accumulator = 0]

\* while (this.accumulator >= step) { fixedUpdate(step); accumulator -= step }.
RECURSIVE stepLoop(_)
stepLoop(g) ==
    IF g.accumulator < STEP THEN g
    ELSE stepLoop([fixedUpdate(g, 1) EXCEPT !.accumulator = @ - STEP])

\* if (this.player2.active) this.player2.update(step, keys, quadTree).
player2Update(g) == IF g.player2.active THEN PlayerUpdate(g, "player2") ELSE g

\* if (this.replayMode) this.playReplay(step).
replayStep(g) == IF g.replayMode THEN playReplay(g) ELSE g

\* this.frameCount++.
countFrame(g) == [g EXCEPT !.frameCount = @ + 1]

update(g, dt) ==
    IF g.paused THEN g
    ELSE IF g.state = "editor" THEN editorUpdate(g)
    ELSE IF g.state # "game" THEN g
    ELSE countFrame(replayStep(checkWin(
            updateTriggers(
                updateParticles(
                    player2Update(PlayerUpdate(stepLoop(advance(g, dt)), "player")), 0),
                g.level.objects))))

\* The frame, were the time since the frame before passed on as it is.
loopUncapped(g, gap) == update([g EXCEPT !.last.gap = gap, !.last.dt = gap], gap)

\* Game.loop(), gap being now - this.lastTime:
\* dt = Math.min((now - this.lastTime) / 1000, 1 / 30); this.update(dt).
loop(g, gap) ==
    update([g EXCEPT !.last.gap = gap, !.last.dt = Min(gap, DT \div 30)],
           Min(gap, DT \div 30))

togglePause(g) ==
    IF g.state # "game" /\ g.state # "editor" THEN g ELSE [g EXCEPT !.paused = ~@]

togglePractice(g) ==
    LET g1 == [g EXCEPT !.practice = ~@]
    IN  IF g1.practice /\ Len(g1.checkpoints) = 0
        THEN [g1 EXCEPT !.checkpoints = Append(@, [p1 |-> g.player, p2 |-> g.player2])]
        ELSE g1

toggleReplay(g) ==
    LET g1 == [g EXCEPT !.replayMode = ~@]
    IN  IF g1.replayMode THEN [g1 EXCEPT !.replayIndex = 0] ELSE g1

\* Game.handleInput(down); group is the draw of Editor.handleInput.
handleInput(g, down, group) ==
    LET g1 == IF g.state = "game" /\ ~g.paused
              THEN recordReplay(IF down THEN [g EXCEPT !.player = jump(@, FALSE)] ELSE g,
                                IF down THEN "jump" ELSE "release")
              ELSE g
    IN  IF g1.state = "editor" THEN editorHandleInput(g1, down, group) ELSE g1

(***************************************************************************)
(* The state after new Game(), and the steps: a level chosen from the      *)
(* menu, an animation frame, the jump key, the practice and pause buttons. *)
(***************************************************************************)
InitFrom(g) ==
    /\ state = g.state /\ paused = g.paused /\ practice = g.practice
    /\ replayMode = g.replayMode /\ checkpoints = g.checkpoints
    /\ currentCP = g.currentCP /\ level = g.level /\ levelId = g.levelId
    /\ quadTree = g.quadTree /\ player = g.player /\ player2 = g.player2
    /\ time = g.time /\ accumulator = g.accumulator /\ speedMult = g.speedMult
    /\ coins = g.coins /\ orbs = g.orbs /\ stars = g.stars
    /\ frameCount = g.frameCount /\ keys = g.keys
    /\ particlesPool = g.particlesPool /\ particles = g.particles
    /\ activeParticles = g.activeParticles /\ replays = g.replays
    /\ replayIndex = g.replayIndex /\ editor = g.editor
    /\ hist = g.hist /\ last = g.last

Init == InitFrom(GameInit)

\* The frames a run takes, and the frame times of loop() (at most 1/30 s).
MaxFrames == 5
FrameDts == {DT \div 60}

\* A step of kind op on the game as it is.
Begin(op, life) == [G EXCEPT !.last = NewLast(op, life)]
End(g) == Commit([g EXCEPT !.last.life = 0])

LoadLevel(id) ==
    /\ state = "menu"
    /\ End(loadLevel(Begin("load", 0), id))

Frame(dt, life) ==
    /\ state = "game"
    /\ frameCount < MaxFrames
    /\ End(update(Begin("frame", life), dt))

KeyDown(code) ==
    /\ code \notin keys
    /\ End([Begin("keydown", 0) EXCEPT !.keys = @ \cup {code}])

KeyUp(code) ==
    /\ code \in keys
    /\ End([Begin("keyup", 0) EXCEPT !.keys = @ \ {code}])

TogglePractice == End(togglePractice(Begin("practice", 0)))

TogglePause ==
    /\ state = "game"
    /\ End(togglePause(Begin("pause", 0)))

Next ==
    \/ \E id \in LevelIds : LoadLevel(id)
    \/ \E dt \in FrameDts, life \in LifeDraws : Frame(dt, life)
    \/ KeyDown("Space")
    \/ KeyUp("Space")
    \/ TogglePractice
    \/ TogglePause

Spec == Init /\ [][Next]_vars

(***************************************************************************)
(* Properties.                                                             *)
(***************************************************************************)
Range(s) == { s[k] : k \in 1..Len(s) }

Rect(o) == [x |-> o.x, y |-> o.y, w |-> o.w, h |-> o.h]

InsideRoot(o) ==
    /\ o.x >= 0 /\ o.x + o.w <= level.width
    /\ o.y >= 0 /\ o.y + o.h <= level.height

\* The ranges the index is asked about: the actors' boxes and the rectangles
\* of the level objects.
Probes ==
    {getBBox(player), getBBox(player2)} \cup { Rect(level.objects[j]) : j \in 1..Len(level.objects) }

\* C1 (Containment): every level object that lies inside the root bounds is
\* returned by a query over every range that intersects it, also when the
\* object straddles a subdivision boundary and the range lies in another
\* quadrant than the one the object was filed into.
C1_Containment ==
    \A i \in 1..Len(level.objects) :
        InsideRoot(level.objects[i]) =>
            \A Q \in Probes :
                intersects(Q, level.objects[i]) =>
                    i \in Range(query(quadTree, Q, level.objects, << >>))

\* C2 (One-shot death): for a spike that an actor's box has overlapped, over
\* any number of frames, with one or two actors, in practice mode or not,
\* Game.die has been called for that spike exactly once since the level
\* objects were installed.
C2_OneShotDeath ==
    \A i \in 1..Len(level.objects) :
        (level.objects[i].type = "spike" /\ hist[i].over) => hist[i].dies = 1

\* C3 (Trigger dispatch in the frame pipeline): after a frame in which the
\* actor's box overlaps, in Game.updateTriggers, a trigger that was unused
\* before the frame, the trigger's effect has been applied to the level
\* objects of its target group.
C3_TriggerApplied ==
    last.op = "frame" => \A i \in last.trig : hist[i].fired = 1

\* C6 (Mode switch): a ship portal that an actor's box has overlapped is
\* used, and the actor's mode was ship at the end of the Player.update of the
\* first overlap; a later dispatch of the portal, used by then, leaves the
\* mode of either actor as it is.
ShipPortal(o) == o.type = "portal" /\ o.effect = "mode" /\ o.value = "ship"

C6_ModeSwitch ==
    \A i \in 1..Len(level.objects) :
        (ShipPortal(level.objects[i]) /\ hist[i].over) =>
            /\ level.objects[i].used
            /\ hist[i].modeAfter = "ship"
            /\ \A who \in {"player", "player2"} :
                  handleObject(G, who, level.objects, i)[who].mode = G[who].mode

\* C7 (Dispatch on a used object is a no-op): for every object of the level
\* whose used flag is true, Player.handleObject for either actor and
\* Game.handleTrigger leave the whole game (the actors, the second actor's
\* active flag, speedMult, the counters, the particle pool, the level
\* objects and the index) as it is.
C7_UsedNoOp ==
    \A i \in 1..Len(level.objects) :
        level.objects[i].used =>
            /\ handleObject(G, "player", level.objects, i) = G
            /\ handleObject(G, "player2", level.objects, i) = G
            /\ handleTrigger(G, i) = G

\* A frame called Game.handleTrigger for a used trigger and
\* Player.handleObject for a used object of another kind.
C7_Witness ==
    /\ \E c \in last.noop : c[1] = "handleTrigger"
    /\ \E c \in last.noop : c[1] = "handleObject"

\* C8 (the used flag is monotone within a level): a step that does not load
\* a level keeps the level objects in place and leaves every used flag that
\* is true true, whether it is a frame, a death with or without a checkpoint
\* respawn, a pause or a trigger; and after a level is loaded from the menu
\* every object of the level has its used flag false.
C8_UsedMonotone ==
    [][ /\ ~last'.reload =>
            /\ Len(level'.objects) = Len(level.objects)
            /\ \A i \in 1..Len(level.objects) :
                  level.objects[i].used => level'.objects[i].used
        /\ last'.op = "load" =>
            \A i \in 1..Len(level'.objects) : ~level'.objects[i].used ]_vars

\* A spike has killed the actor, who was put back at the checkpoint, and the
\* spike is still used.
C8_Witness ==
    \E i \in 1..Len(level.objects) :
        level.objects[i].used /\ hist[i].dies = 1 /\ practice

(***************************************************************************)
(* Game.handleTrigger on its own: a level with the three triggers of the   *)
(* demo level, ground of group 1, a block of group 2 and a spike without   *)
(* group is installed, the move trigger's payload being drawn; a step      *)
(* applies handleTrigger to one of the triggers.                           *)
(***************************************************************************)
TrigGroups == {1, 2}
TrigDxs == {0 - 50 * PX, 20 * PX, 50 * PX}
TrigDys == {0 - TILE, 0, TILE \div 2}

TrigLevel(tg, dx, dy) ==
    LevelOf(6, << [Obj(2 * TILE, HEIGHT - 3 * TILE, TILE, TILE, "block") EXCEPT !.group = 2],
                  addSpike(25),
                  MoveTrigger(40, tg, dx, dy),
                  [addTrigger(45, "color", tg) EXCEPT !.color = 5],
                  [addTrigger(50, "alpha", tg) EXCEPT !.alpha = 50] >>)

InitTrig ==
    \E tg \in TrigGroups, dx \in TrigDxs, dy \in TrigDys :
        InitFrom([install(GameInit, 0, TrigLevel(tg, dx, dy))
                     EXCEPT !.last = NewLast("new", 0)])

ApplyTrigger(i) ==
    /\ level.objects[i].type = "trigger"
    /\ End(handleTrigger(Begin("trigger", 0), i))

NextTrig == \E i \in 1..Len(level.objects) : ApplyTrigger(i)

SpecTrig == InitTrig /\ [][NextTrig]_vars

\* C4 (Group move): a step in which Game.handleTrigger applies an unused move
\* trigger with target group g and offset (dx, dy) adds exactly (dx, dy) to
\* the position of every level object whose group is g and leaves the
\* position, the color and the alpha of every other object as they were.
C4_GroupMove ==
    [][ \A t \in 1..Len(level.objects) :
          ( /\ level.objects[t].effect = "move"
            /\ hist'[t].fired = hist[t].fired + 1 ) =>
              /\ Len(level'.objects) = Len(level.objects)
              /\ \A j \in 1..Len(level.objects) :
                    LET a == level.objects[j]
                        b == level'.objects[j]
                    IN  IF a.group = level.objects[t].targetGroup
                        THEN /\ b.x = a.x + level.objects[t].dx
                             /\ b.y = a.y + level.objects[t].dy
                        ELSE /\ b.x = a.x /\ b.y = a.y
                             /\ b.color = a.color /\ b.alpha = a.alpha ]_vars

\* The move trigger has been applied; it moved an object and left another.
C4_Witness ==
    \E t \in 1..Len(level.objects) :
        /\ level.objects[t].effect = "move" /\ hist[t].fired = 1
        /\ level.objects[t].dx # 0
        /\ \E j \in 1..Len(level.objects) : level.objects[j].group = level.objects[t].targetGroup
        /\ \E j \in 1..Len(level.objects) : level.objects[j].group # level.objects[t].targetGroup

\* C5 (query after a move): once a move trigger has been applied and the
\* index rebuilt, a query over the new bounds of every moved object returns
\* it, and a query over its old bounds, where they do not intersect the new
\* ones, does not; also for an object moved to or beyond the level's width
\* or height.
C5_QueryAfterMove ==
    \A t \in 1..Len(level.objects) :
        (level.objects[t].effect = "move" /\ hist[t].fired = 1) =>
            \A j \in 1..Len(level.objects) :
                level.objects[j].group = level.objects[t].targetGroup =>
                    LET new == Rect(level.objects[j])
                        old == [new EXCEPT !.x = @ - level.objects[t].dx,
                                           !.y = @ - level.objects[t].dy]
                    IN  /\ j \in Range(query(quadTree, new, level.objects, << >>))
                        /\ ~intersects(old, new) =>
                              j \notin Range(query(quadTree, old, level.objects, << >>))

(***************************************************************************)
(* Player.update on its own: a level with one block (a block of the ship   *)
(* passage of level 1), the actor put near it with a drawn position,       *)
(* vertical velocity, gravity direction and mirror flag; a step is one     *)
(* Player.update.                                                          *)
(***************************************************************************)
ColBlock == Obj(4 * TILE, HEIGHT - 3 * TILE, TILE, TILE, "block")

ColLevel == [objects |-> << ColBlock >>, width |-> 8 * TILE, height |-> HEIGHT]

\* The actor's centre, relative to the block's corner, and its velocity.
ColXs == {0 - 20 * PX, 0 - 5 * PX, 10 * PX, 25 * PX, 35 * PX, 50 * PX}
ColYs == {0 - 20 * PX, 0 - 8 * PX, 10 * PX, 25 * PX, 38 * PX, 50 * PX}
ColVys == {0 - 8 * PX, 0, 8 * PX}

InitCol ==
    \E ox \in ColXs, oy \in ColYs, vy \in ColVys, fl \in {0 - 1, 1}, mir \in BOOLEAN :
        InitFrom([install(GameInit, 0, ColLevel) EXCEPT
                     !.player = [@ EXCEPT !.x = ColBlock.x + ox, !.y = ColBlock.y + oy,
                                          !.vy = vy, !.flip = fl, !.mirror = mir,
                                          !.onGround = FALSE],
                     !.last = NewLast("new", 0)])

PlayerTick ==
    /\ last.op = "new"
    /\ End(PlayerUpdate(Begin("update", 0), "player"))

NextCol == PlayerTick

SpecCol == InitCol /\ [][NextCol]_vars

\* C9 (Non-penetration): after a Player.update in which the actor's box
\* overlapped the block before the passes, whatever the relative position
\* and the signs of vx, vy and flip, the actor's box as getBBox() returns it
\* does not overlap the block.
C9_NonPenetration ==
    (last.op = "update" /\ hist[1].over) =>
        ~collide(getBBox(player), level.objects[1])

\* The actor's box with its centre at (x, y).
BoxAt(p, x, y) == getBBox([p EXCEPT !.x = x, !.y = y])

\* C10 (the passes are axis-separated): in a Player.update in which the
\* actor's box comes to overlap the block through the vertical displacement
\* alone (it overlaps neither before the tick nor after the horizontal
\* displacement alone, and overlaps after the vertical one with or without
\* the horizontal one), collision resolution leaves the x coordinate at the
\* value the horizontal displacement gave it.
C10_AxisSeparated ==
    [][ last'.op = "update" =>
          LET m == PlayerMove(player, speedMult, Input(keys))
              b == level.objects[1]
          IN  ( /\ ~collide(BoxAt(m, player.x, player.y), b)
                /\ ~collide(BoxAt(m, m.x, player.y), b)
                /\ collide(BoxAt(m, player.x, m.y), b)
                /\ collide(BoxAt(m, m.x, m.y), b) ) => player'.x = m.x ]_vars

\* The case of a landing in the Player.update of a step: the actor, after
\* the displacement, is in cube mode with flip = +1 and vy > 0, and the box
\* of the Y pass (the actor's box, its y replaced by the actor's y) overlaps
\* the block.
Lands(m, b) ==
    /\ m.mode = "cube" /\ m.flip = 1 /\ m.vy > 0
    /\ collide([getBBox(m) EXCEPT !.y = m.y], b)

\* The state a landing on block b leaves the actor in.
Landed(p, b) == p.vy = 0 /\ p.onGround /\ p.y = b.y - BoxSize(p)

MaxCalls == 3

SpawnCounts == {30, 400, 1500}

\* The calls of updateParticles in a run: as many as take a life of half a
\* second to its end.
RunLengths == {(DT \div 2) \div STEP}

\* n calls of Game.updateParticles(step), one after the other.
RECURSIVE updateParticlesTimes(_, _)
updateParticlesTimes(g, n) ==
    IF g.activeParticles = 0 \/ n <= 0 THEN g
    ELSE IF n = 1 THEN updateParticles(g, 0)
    ELSE updateParticlesTimes(updateParticlesTimes(g, n \div 2), n - n \div 2)

\* The spike of level 1.
PoolSpike == CHOOSE i \in 1..Len(generateLevel(1).objects) :
                generateLevel(1).objects[i].type = "spike"

InitPool == InitFrom([loadLevel(GameInit, 1) EXCEPT !.last = NewLast("new", 0)])

BeginCall(op, life) ==
    [Begin(op, life) EXCEPT !.last.n = last.n + 1, !.last.since = last.since]

Spawn(count, life) ==
    /\ last.n < MaxCalls
    /\ End(addParticle(BeginCall("spawn", life), count))

Advance(n) ==
    /\ last.n < MaxCalls
    /\ End(updateParticlesTimes(BeginCall("advance", 0), n))

Die(life) ==
    /\ last.n < MaxCalls
    /\ End(die(BeginCall("die", life), PoolSpike))

Reload ==
    /\ last.n < MaxCalls
    /\ End(loadLevel(BeginCall("load", 0), 1))

NextPool ==
    \/ \E count \in SpawnCounts, life \in LifeDraws : Spawn(count, life)
    \/ \E n \in RunLengths : Advance(n)
    \/ \E life \in LifeDraws : Die(life)
    \/ Reload

SpecPool == InitPool /\ [][NextPool]_vars

\* C12 (Particle pool bound): activeParticles is between 0 and the pool
\* length (1000) in every state, and Game.addParticle called with any count,
\* a particles being active, returns with exactly min(1000, a + count)
\* active (1500 on an empty pool give 1000).
C12_PoolBound ==
    /\ 0 <= activeParticles /\ activeParticles <= Len(particlesPool)
    /\ Len(particlesPool) = PoolSize
    /\ \A count \in SpawnCounts \cup {0, 1, 50} :
          addParticle(G, count).activeParticles = Min(PoolSize, activeParticles + count)

\* A spawn has filled the pool to its last slot.
C12_Witness == last.op = "spawn" /\ activeParticles = PoolSize

\* C13 (Particle removal is a swap): after any sequence of spawns and
\* advances the slots of the pool hold pairwise distinct particles, the
\* particles of the original pool: none is in two slots and none is lost.
C13_SwapRemoval ==
    /\ \A i, j \in 1..Len(particlesPool) :
          particlesPool[i] = particlesPool[j] => i = j
    /\ Range(particlesPool) = Range(GameInit.particlesPool)

(***************************************************************************)
(* The frame loop on its own: from the menu, level 1 or the editor is      *)
(* opened; a step is then a frame of Game.loop after a drawn time since    *)
(* the frame before, a press or release of the pointer on the canvas, or   *)
(* the Escape key.  A run has at most MaxTurns steps.                      *)
(***************************************************************************)
MaxTurns == 4

\* The times between two frames: none, less than a step, a frame at 60 Hz,
\* a little more, the cap of 1/30 s, more than it, and a stall of 1/4 s.
Gaps == {0, STEP - 1, DT \div 60, DT \div 60 + 2, DT \div 30, DT \div 20, DT \div 4}

InitLoop == InitFrom(GameInit)

Play ==
    /\ state = "menu" /\ last.n < MaxTurns
    /\ End(loadLevel(BeginCall("load", 0), 1))

OpenEditor ==
    /\ state = "menu" /\ last.n < MaxTurns
    /\ End(editorInit(BeginCall("editor", 0)))

Loop(gap, life) ==
    /\ last.n < MaxTurns
    /\ End(loop(BeginCall("loop", life), gap))

\* mousedown / mouseup on the canvas: Game.handleInput, and the editor's
\* own listener that keeps mouse.down.
Pointer(down, group) ==
    /\ last.n < MaxTurns
    /\ End([handleInput(BeginCall("pointer", 0), down, group)
                EXCEPT !.editor.mouse.down = down])

Escape ==
    /\ last.n < MaxTurns
    /\ End(togglePause(BeginCall("pause", 0)))

NextLoop ==
    \/ Play
    \/ OpenEditor
    \/ \E gap \in Gaps, life \in LifeDraws : Loop(gap, life)
    \/ \E down \in BOOLEAN : Pointer(down, 1)
    \/ Escape

SpecLoop == InitLoop /\ [][NextLoop]_vars

\* C14 (Accumulator conservation): a frame of an unpaused game calls
\* fixedUpdate n times with n * step + accumulator after = accumulator
\* before + dt and 0 <= accumulator after < step; a frame of a paused game,
\* or outside the game state, leaves the accumulator as it is and calls
\* fixedUpdate not at all.
C14_Conservation ==
    [][ last'.op = "loop" =>
          IF ~paused /\ state = "game"
          THEN /\ last'.fixed * STEP + accumulator' = accumulator + last'.dt
               /\ 0 <= accumulator' /\ accumulator' < STEP
          ELSE accumulator' = accumulator /\ last'.fixed = 0 ]_vars

\* A frame shorter than a step has made a call of fixedUpdate out of the
\* rest the frame before left, and has left a rest itself.
C14_Witness ==
    /\ last.op = "loop" /\ last.dt < STEP
    /\ last.fixed = 1 /\ accumulator > 0

\* C15 (Bounded catch-up): whatever time has passed since the frame before,
\* the dt a frame passes to Game.update is at most 1/30 s, and the frame
\* makes at most 8 calls of fixedUpdate.
C15_BoundedCatchUp ==
    last.op = "loop" => last.dt <= DT \div 30 /\ last.fixed <= 8

\* A frame after a stall of 1/4 s has made 8 calls of fixedUpdate.
C15_Witness ==
    /\ last.op = "loop" /\ last.gap = DT \div 4
    /\ last.dt = DT \div 30 /\ last.fixed = 8

\* C16 (Pause preserves state): while paused is true, a frame (Game.loop
\* calling Game.update) and a pointer input (Game.handleInput) leave the
\* actors, the level objects with their used flags, the spatial index, the
\* particle pool and the active count, time, the accumulator, the counters,
\* speedMult and the replay log as they are, so that the simulation goes on
\* from that state once the pause is lifted.
C16_PausePreserves ==
    [][ (paused /\ last'.op \in {"loop", "pointer"}) =>
          UNCHANGED << player, player2, level, quadTree, particlesPool, particles,
                       activeParticles, time, accumulator, coins, orbs, stars,
                       frameCount, speedMult, replays >> ]_vars

\* C17 (The sub-step only moves the actor): a call of Game.fixedUpdate
\* changes nothing but the x and y of the actors that are active: velocity,
\* mode, flip, mini, mirror, onGround, the used flags, the counters, the
\* level objects and the spatial index stay, no death, win or trigger comes
\* of it, and an actor that is not active stays where it is.
C17_SubStepOnlyMoves ==
    LET g == fixedUpdate(G, 1)
    IN  /\ g = [G EXCEPT !.player.x = g.player.x, !.player.y = g.player.y,
                         !.player2.x = g.player2.x, !.player2.y = g.player2.y,
                         !.last.fixed = @ + 1]
        /\ ~player2.active => g.player2 = player2

\* A frame has made calls of fixedUpdate, both actors are active and in
\* motion, and a further call moves both.
C17_Witness ==
    /\ last.op = "frame" /\ last.fixed > 0
    /\ player2.active /\ player.vy # 0
    /\ fixedUpdate(G, 1).player.x # player.x
    /\ fixedUpdate(G, 1).player.y # player.y
    /\ fixedUpdate(G, 1).player2.x # player2.x

(***************************************************************************)
(* Player.handleObject on its own: a level with one object, of a drawn     *)
(* kind, effect and value, those the program knows and others; the actor   *)
(* is put on the object or away from it with a drawn mode, gravity         *)
(* direction and vertical velocity; a step is one Player.update.           *)
(***************************************************************************)
\* The kinds Player.update and Player.handleObject tell apart, the trigger
\* of Game.updateTriggers, and the effects of a portal.
KnownKinds == {"block", "portal", "tele", "orb", "pad", "coin", "finish", "spike", "trigger"}
PortalEffects == {"gravity", "mini", "mirror", "dual", "speed", "mode"}

ObjAt(type, effect, value, id) ==
    [Obj(4 * TILE, HEIGHT - 3 * TILE, TILE, TILE, type)
        EXCEPT !.effect = effect, !.value = value, !.id = id]

ObjDraws ==
    << ObjAt("portal", "gravity", Undef, NoNum),
       ObjAt("portal", "mini", Undef, NoNum),
       ObjAt("portal", "mirror", Undef, NoNum),
       ObjAt("portal", "dual", Undef, NoNum),
       ObjAt("portal", "mode", "ship", NoNum),
       ObjAt("portal", "mode", "plane", NoNum),
       ObjAt("portal", "speed", 20, NoNum),
       ObjAt("portal", "warp", Undef, NoNum),
       ObjAt("portal", Undef, Undef, NoNum),
       ObjAt("orb", "yellow", Undef, NoNum),
       ObjAt("orb", "blue", Undef, NoNum),
       ObjAt("orb", Undef, Undef, 1),
       ObjAt("pad", Undef, Undef, NoNum),
       ObjAt("coin", Undef, Undef, 1),
       ObjAt("deco", Undef, Undef, NoNum),
       ObjAt("deco", "mode", "ship", 1) >>

ObjLevel(o) == [objects |-> << o >>, width |-> 8 * TILE, height |-> HEIGHT]

\* The actor's centre, relative to the object's corner.
ObjXs == {10 * PX, 0 - 60 * PX}
ObjModes == {"cube", "ship", "robot"}

InitObj ==
    \E k \in 1..Len(ObjDraws), ox \in ObjXs, md \in ObjModes,
       vy \in ColVys, fl \in {0 - 1, 1} :
        InitFrom([install(GameInit, 0, ObjLevel(ObjDraws[k])) EXCEPT
                     !.player = [@ EXCEPT !.x = ObjDraws[k].x + ox,
                                          !.y = ObjDraws[k].y + 15 * PX,
                                          !.mode = md, !.vy = vy, !.flip = fl,
                                          !.onGround = FALSE],
                     !.last = NewLast("new", 0)])

Contact ==
    /\ last.op = "new"
    /\ End(PlayerUpdate(Begin("contact", DT - 1), "player"))

NextObj == Contact

SpecObj == InitObj /\ [][NextObj]_vars

\* The object is of no kind the program knows, or a portal or an orb of no
\* effect the program knows.
Unknown(o) ==
    \/ o.type \notin KnownKinds
    \/ o.type = "portal" /\ o.effect \notin PortalEffects
    \/ o.type = "orb" /\ o.effect \notin JumpKinds

\* C18 (Unknown values are no-ops): a Player.update in which the actor's
\* box overlaps an object of an unknown kind, or a portal or orb of an
\* unknown effect, leaves the actor's position, velocity, mode, flip, mini
\* and mirror as the displacement of the tick alone gives them, and the
\* counters and speedMult as they were.
C18_UnknownNoOp ==
    [][ (last'.op = "contact" /\ hist'[1].over /\ Unknown(level.objects[1])) =>
          LET m == PlayerMove(player, speedMult, Input(keys))
          IN  /\ player'.x = m.x /\ player'.y = m.y
              /\ player'.vx = m.vx /\ player'.vy = m.vy
              /\ player'.mode = m.mode /\ player'.flip = m.flip
              /\ player'.mini = m.mini /\ player'.mirror = m.mirror
              /\ coins' = coins /\ orbs' = orbs /\ speedMult' = speedMult ]_vars

\* C19 (Mode fails closed): the mode of either actor is one of the eight
\* modes of MODES in every state; a mode portal of another value leaves the
\* mode the actor had.
C19_ModeClosed ==
    /\ player.mode \in DOMAIN MODES
    /\ player2.mode \in DOMAIN MODES

\* The ranges of no area about the point (x, y): a point, a vertical and a
\* horizontal segment of d.
ZeroRanges(x, y, d) ==
    { [x |-> x, y |-> y, w |-> 0, h |-> 0],
      [x |-> x, y |-> y - d \div 2, w |-> 0, h |-> d],
      [x |-> x - d \div 2, y |-> y, w |-> d, h |-> 0] }

\* C20 (Degenerate query): QuadTree.query with a range of no area (w = 0 or
\* h = 0) returns nothing, wherever the range lies: inside a stored
\* object's rectangle, on its corner, or away from every object.
C20_DegenerateQuery ==
    \A i \in 1..Len(level.objects) :
        LET o == level.objects[i]
        IN  \A r \in ZeroRanges(o.x + o.w \div 2, o.y + o.h \div 2, o.w \div 2)
                    \cup ZeroRanges(o.x, o.y, o.w \div 2)
                    \cup ZeroRanges(o.x - 2 * o.w, o.y - 2 * o.h, o.w \div 2) :
                query(quadTree, r, level.objects, << >>) = << >>

(***************************************************************************)
(* Payloads on their own: a level with one drawn object, a tele or a move  *)
(* trigger with or without its payload, a block of group 1 and a spike     *)
(* without group; the actor is put on the drawn object or away from it; a  *)
(* step is one Player.update, or Game.handleTrigger for the trigger.       *)
(***************************************************************************)
Tele(targetX, targetY) ==
    [ObjAt("tele", Undef, Undef, NoNum) EXCEPT !.targetX = targetX, !.targetY = targetY]

Mover(targetGroup, dx, dy) ==
    [ObjAt("trigger", "move", Undef, NoNum)
        EXCEPT !.targetGroup = targetGroup, !.dx = dx, !.dy = dy]

PayDraws ==
    << Tele(6 * TILE, HEIGHT - 2 * TILE),
       Tele(NoNum, NoNum),
       Tele(6 * TILE, NoNum),
       Mover(1, 20 * PX, 0),
       Mover(1, NoNum, NoNum),
       Mover(1, 20 * PX, NoNum),
       Mover(NoNum, 20 * PX, 0),
       Mover(NoNum, NoNum, NoNum) >>

PayLevel(o) ==
    [objects |-> << o,
                    [Obj(TILE, HEIGHT - TILE, TILE, TILE, "block") EXCEPT !.group = 1],
                    Obj(6 * TILE, HEIGHT - TILE, TILE, TILE, "spike") >>,
     width |-> 8 * TILE, height |-> HEIGHT]

InitPay ==
    \E k \in 1..Len(PayDraws), ox \in ObjXs, md \in ObjModes,
       vy \in ColVys, fl \in {0 - 1, 1} :
        InitFrom([install(GameInit, 0, PayLevel(PayDraws[k])) EXCEPT
                     !.player = [@ EXCEPT !.x = PayDraws[k].x + ox,
                                          !.y = PayDraws[k].y + 15 * PX,
                                          !.mode = md, !.vy = vy, !.flip = fl,
                                          !.onGround = FALSE],
                     !.last = NewLast("new", 0)])

NextPay == Contact \/ ApplyTrigger(1)

SpecPay == InitPay /\ [][NextPay]_vars

\* A coordinate that is a defined number.
Defined(v) == v # NoNum /\ v # NaN

\* C21 (Malformed payloads are no-ops): a Player.update in which the actor's
\* box overlaps a tele without targetX or targetY leaves the actor where the
\* displacement of the tick put it; Game.handleTrigger for a move trigger
\* without dx, dy or targetGroup leaves the position of every level object
\* as it was; and every coordinate stays a defined number.
C21_MalformedNoOp ==
    [][ LET o == level.objects[1]
        IN  /\ (/\ last'.op = "contact" /\ hist'[1].over /\ o.type = "tele"
                 /\ (o.targetX = NoNum \/ o.targetY = NoNum)) =>
                    LET m == PlayerMove(player, speedMult, Input(keys))
                    IN  /\ player'.x = m.x /\ player'.y = m.y
                        /\ Defined(player'.x) /\ Defined(player'.y)
            /\ (/\ last'.op = "trigger" /\ o.effect = "move"
                 /\ (o.dx = NoNum \/ o.dy = NoNum \/ o.targetGroup = NoNum)) =>
                    \A j \in 1..Len(level.objects) :
                        /\ level'.objects[j].x = level.objects[j].x
                        /\ level'.objects[j].y = level.objects[j].y
                        /\ Defined(level'.objects[j].x)
                        /\ Defined(level'.objects[j].y) ]_vars

(***************************************************************************)
(* The replay log on its own: level 6, with a 2x speed portal at the spawn *)
(* point and a spike a tile and a half ahead, is loaded; a step is a frame *)
(* of 1/60 s, a press or release of the pointer, the Escape key, the       *)
(* practice button or the replay button.  A run has at most MaxMoves       *)
(* steps.                                                                  *)
(***************************************************************************)
MaxMoves == 8

InitReplay == InitFrom([loadLevel(GameInit, 6) EXCEPT !.last = NewLast("new", 0)])

Tick ==
    /\ last.n < MaxMoves
    /\ End(update(BeginCall("tick", DT - 1), DT \div 60))

\* A press follows a release and a release a press.
Press(down) ==
    /\ last.n < MaxMoves
    /\ editor.mouse.down # down
    /\ End([handleInput(BeginCall("pointer", 0), down, 1)
                EXCEPT !.editor.mouse.down = down])

Pause ==
    /\ last.n < MaxMoves
    /\ End(togglePause(BeginCall("pause", 0)))

Practice ==
    /\ last.n < MaxMoves
    /\ End(togglePractice(BeginCall("practice", 0)))

ToggleReplay ==
    /\ last.n < MaxMoves
    /\ End([toggleReplay(BeginCall("replay", 0))
                EXCEPT !.last.since = IF replayMode THEN @ ELSE time])

NextReplay ==
    \/ Tick
    \/ \E down \in BOOLEAN : Press(down)
    \/ Pause
    \/ Practice
    \/ ToggleReplay

SpecReplay == InitReplay /\ [][NextReplay]_vars

\* The frame timestamps of a log do not decrease along it.
Ordered(log) == \A i, j \in 1..Len(log) : i <= j => log[i].frame <= log[j].frame

\* C22 (Replay log is append-only and ordered): a step that does not load
\* the level leaves every entry of the log as it was and at most appends
\* to it, and the frame timestamps of the log do not decrease in log order.
C22_AppendOnly ==
    [][ ~last'.reload =>
          /\ Len(replays') >= Len(replays)
          /\ SubSeq(replays', 1, Len(replays)) = replays
          /\ Ordered(replays') ]_vars

\* Two entries of different timestamps are in the log, recorded on either
\* side of a respawn in practice mode, the speed portal having been touched.
C22_Witness ==
    /\ Len(replays) >= 2 /\ replays[1].frame < replays[Len(replays)].frame
    /\ practice /\ speedMult = 20
    /\ \E i \in 1..Len(level.objects) : level.objects[i].type = "spike" /\ hist[i].dies > 0

\* C23 (Replay timing): an event of the log is reissued in the frame in
\* which the elapsed-time counter first reaches its timestamp: the counter
\* has reached the timestamp at the end of that frame and had not passed it
\* before the frame, the counter being time * 240 or time * 240 counted
\* from the moment replay was switched on.  The events of a frame are
\* reissued in log order, each once.
C23_ReplayTiming ==
    [][ /\ \A k \in Range(last'.played) :
              \/ /\ time * 240 <= replays[k].frame
                 /\ replays[k].frame <= time' * 240
              \/ /\ (time - last'.since) * 240 <= replays[k].frame
                 /\ replays[k].frame <= (time' - last'.since) * 240
        /\ \A i, j \in 1..Len(last'.played) :
              i < j => last'.played[i] < last'.played[j] ]_vars

\* C24 (Portal effects are exact and isolated): a Player.update in which the
\* actor's box overlaps an unused portal leaves flip negated by a gravity
\* portal, mini switched by a mini portal, mirror switched by a mirror
\* portal, the second actor's active flag switched by a dual portal and
\* speedMult set to the value of a speed portal; each of these attributes,
\* and the mode, is otherwise as the displacement of the tick alone leaves
\* it, and flip is +1 or -1.
C24_PortalEffects ==
    [][ LET o == level.objects[1]
            m == PlayerMove(player, speedMult, Input(keys))
        IN  /\ player'.flip \in {0 - 1, 1}
            /\ (/\ last'.op = "contact" /\ hist'[1].over /\ o.type = "portal"
                 /\ o.effect \in {"gravity", "mini", "mirror", "dual", "speed"}) =>
                   /\ player'.flip = IF o.effect = "gravity" THEN 0 - m.flip ELSE m.flip
                   /\ player'.mini = IF o.effect = "mini" THEN ~m.mini ELSE m.mini
                   /\ player'.mirror = IF o.effect = "mirror" THEN ~m.mirror ELSE m.mirror
                   /\ player2'.active = IF o.effect = "dual" THEN ~player2.active
                                        ELSE player2.active
                   /\ speedMult' = IF o.effect = "speed" THEN o.value ELSE speedMult
                   /\ player'.mode = m.mode ]_vars

\* A gravity portal has been touched under reversed gravity, and has put
\* gravity upright.
C24_Witness ==
    /\ last.op = "contact" /\ hist[1].over
    /\ level.objects[1].type = "portal" /\ level.objects[1].effect = "gravity"
    /\ level.objects[1].used /\ player.flip = 1 /\ player.vy < 0

\* C25 (Death resets the actor): at the end of a frame in which a spike
\* contact has signalled death outside practice mode (Game.die has run
\* Game.restart), the actor is in the spawn state (x = 3 * TILE, y = HEIGHT
\* - 1.5 * TILE, mode cube, flip +1, mini and mirror false), the coin and
\* orb counters are 0 and speedMult is 1, whatever else the actor's box
\* overlapped in the tick of death.
C25_DeathResets ==
    (last.op = "frame" /\ last.reload) =>
        /\ player.x = 3 * TILE /\ player.y = HEIGHT - (3 * TILE) \div 2
        /\ player.mode = "cube" /\ player.flip = 1
        /\ ~player.mini /\ ~player.mirror
        /\ coins = 0 /\ orbs = 0 /\ speedMult = 10

\* C26 (Coin counter consistency): during play the coin counter is the
\* number of coins of the level in force whose used flag is set.
C26_CoinCount ==
    state = "game" =>
        coins = Cardinality({ i \in 1..Len(level.objects) :
                                level.objects[i].type = "coin" /\ level.objects[i].used })


(***************************************************************************)
(* The spatial index against the level.  A run starts either in the game,  *)
(* on a level of the trigger harness, where a step applies a trigger, or   *)
(* in the editor just opened with the D key held and the mouse somewhere,  *)
(* where a step moves the mouse, touches the canvas, presses the mouse     *)
(* button, undoes, redoes, clears or is a frame of Editor.update.  An      *)
(* editor run has at most MaxEdits steps.                                  *)
(***************************************************************************)
MaxEdits == 7

\* Mouse positions in level coordinates: inside the level, and left of it.
MouseXs == {2 * TILE, 0 - 2 * TILE}

InitEdit ==
    \/ InitTrig
    \/ \E x \in MouseXs :
          InitFrom([editorInit(GameInit) EXCEPT !.keys = {"KeyD"},
                                               !.editor.mouse.x = x,
                                               !.last = NewLast("new", 0)])

\* mousemove on the canvas: Editor.updateMouse.
MouseMove(x) ==
    /\ state = "editor" /\ last.n < MaxEdits
    /\ editor.mouse.x # x
    /\ End([BeginCall("mousemove", 0) EXCEPT !.editor.mouse.x = x])

\* touchstart on the canvas: Game.handleInput(true).
Touch(group) ==
    /\ state = "editor" /\ last.n < MaxEdits
    /\ End(handleInput(BeginCall("touch", 0), TRUE, group))

\* mousedown on the canvas: Game.handleInput(true) and the editor's own
\* listener that sets mouse.down.
MouseDown(group) ==
    /\ state = "editor" /\ last.n < MaxEdits
    /\ ~editor.mouse.down
    /\ End([handleInput(BeginCall("mousedown", 0), TRUE, group)
                EXCEPT !.editor.mouse.down = TRUE])

Undo ==
    /\ state = "editor" /\ last.n < MaxEdits
    /\ End(undo(BeginCall("undo", 0)))

Redo ==
    /\ state = "editor" /\ last.n < MaxEdits
    /\ End(redo(BeginCall("redo", 0)))

Clear ==
    /\ state = "editor" /\ last.n < MaxEdits
    /\ End(clear(BeginCall("clear", 0)))

\* A frame in the editor: Game.update runs Editor.update.
EditFrame ==
    /\ state = "editor" /\ last.n < MaxEdits
    /\ End(update(BeginCall("frame", DT - 1), DT \div 60))

NextEdit ==
    \/ \E i \in 1..Len(level.objects) : ApplyTrigger(i)
    \/ \E x \in MouseXs : MouseMove(x)
    \/ Touch(1)
    \/ MouseDown(1)
    \/ Undo
    \/ Redo
    \/ Clear
    \/ EditFrame

SpecEdit == InitEdit /\ [][NextEdit]_vars

\* The objects stored in the nodes of a tree, node by node.
RECURSIVE Stored(_)
Stored(n) ==
    IF n.divided
    THEN n.objects \o Stored(n.kids[1]) \o Stored(n.kids[2])
                  \o Stored(n.kids[3]) \o Stored(n.kids[4])
    ELSE n.objects

NoRepeat(s) == \A j, k \in 1..Len(s) : s[j] = s[k] => j = k

\* C27 (Index/level consistency): in every state reached by loadLevel, the
\* move, color and alpha triggers and the editor's operations, the objects
\* stored in the spatial index are exactly the objects of level.objects whose
\* rectangle intersects the level bounds, each is stored in one node only, and
\* a query over the whole level returns no object twice and none that is not
\* in level.objects.
C27_IndexConsistent ==
    LET O == level.objects
        s == Stored(quadTree)
        all == query(quadTree, LevelBounds(level), O, << >>)
    IN  /\ \A k \in 1..Len(s) : s[k] \in 1..Len(O)
        /\ \A i \in 1..Len(O) :
              intersects(LevelBounds(level), O[i]) <=> \E k \in 1..Len(s) : s[k] = i
        /\ NoRepeat(s)
        /\ NoRepeat(all)
        /\ \A k \in 1..Len(all) : all[k] \in 1..Len(O)

\* The index is divided in the editor, and an object left of the level is
\* in level.objects.
C27_Witness ==
    /\ state = "editor" /\ quadTree.divided
    /\ \E i \in 1..Len(level.objects) :
          ~intersects(LevelBounds(level), level.objects[i])

\* C28 (Replay cursor stays in range): in every state reached by toggleReplay,
\* frames, pointer inputs, deaths and level loads, replayIndex is at least 0
\* and at most the number of events in the log.
C28_CursorInRange == 0 <= replayIndex /\ replayIndex <= Len(replays)

\* The game after the live input (down: a press, else a release), and the
\* game after playReplay reissues, in the same state, the event that input
\* recorded.
Live(down) == handleInput(G, down, 1)

Reissued(down) ==
    LET log == Live(down).replays
    IN  playReplay([G EXCEPT !.replays = << log[Len(log)] >>, !.replayIndex = 0])

\* C29 (Replay faithfulness of a single event): in every state of a running
\* game, reissuing a recorded event leaves the actor as the live input that
\* recorded it does: a recorded 'jump' sets vy to jump * flip when the actor is
\* grounded and changes nothing otherwise, and a recorded 'release' changes
\* nothing of the actor.
C29_ReplayFaithful ==
    (state = "game" /\ ~paused) =>
        /\ \A down \in BOOLEAN : Reissued(down).player = Live(down).player
        /\ Reissued(TRUE).player =
              IF player.onGround
              THEN [player EXCEPT !.vy = MODES[player.mode].jump * player.flip]
              ELSE player
        /\ Reissued(FALSE).player = player

(***************************************************************************)
(* The ageing of the particles: level 1 is loaded; a step is a call of     *)
(* Game.addParticle with a small count and a drawn life, one call of       *)
(* Game.updateParticles(step), or the calls of half a second of play.  A   *)
(* run has at most MaxAges steps.                                          *)
(***************************************************************************)
MaxAges == 5

AgeCounts == {1, 3}

Emit(count, life) ==
    /\ last.n < MaxAges
    /\ End(addParticle(BeginCall("spawn", life), count))

AgeOnce ==
    /\ last.n < MaxAges
    /\ End(updateParticles(BeginCall("age", 0), 0))

AgeRun(n) ==
    /\ last.n < MaxAges
    /\ End(updateParticlesTimes(BeginCall("advance", 0), n))

NextAge ==
    \/ \E count \in AgeCounts, life \in LifeDraws : Emit(count, life)
    \/ AgeOnce
    \/ \E n \in RunLengths : AgeRun(n)

SpecAge == InitPool /\ [][NextAge]_vars

\* C30 (Each live particle ages once per advance): a step that is one call of
\* Game.updateParticles(step) takes exactly one step off the life of every
\* particle record that is in an active slot before the call (Particle.update
\* ran once on it), and after it every slot below activeParticles holds a
\* particle with life above 0.
C30_AgesOnce ==
    [][ last'.op = "age" =>
          /\ \A k \in 1..activeParticles :
                particles'[particlesPool[k]] = particles[particlesPool[k]] - STEP
          /\ \A k \in 1..activeParticles' :
                particles'[particlesPool'[k]] > 0 ]_vars

====
